---- MODULE Spec2Model ----
(***************************************************************************)
(* A model of the resell price analysis pipeline: ResellWorkflow.run and   *)
(* _finalize (workflow.py), PriceCalculator and _parse_price               *)
(* (price_calculation.py) and the shared listing file MarketSearch writes  *)
(* (market_search.py).                                                     *)
(*                                                                         *)
(* Python values are encoded as follows.                                   *)
(*   - an optional dict entry is a tuple: <<>> when the key is absent,     *)
(*     <<"num", n>> for a number, <<"str", s>> for a string;               *)
(*   - a str is a tuple of one-character strings;                          *)
(*   - a float is an integer count of 1/Unit (fixed point);                *)
(*   - a dict with a fixed key set is a record.                            *)
(***************************************************************************)
EXTENDS Integers, Sequences, FiniteSets, TLC

\* ------------------------------------------------------------------ bounds
\* Number of marketplace listings a judgment payload can speak about.
MaxListing == 2

\* Longest price string tried on _parse_price, beside the literal ones.
MaxPriceLen == 3
\* Longest list handed to calculate_from_evaluation.
MaxItems == 3
\* Longest list handed to EvaluationMetricsTool.
MaxTotal == 10
\* the image urls handed to the vision tool, and the replies of the vision
\* model that are prepared for one invocation
MaxUrls == 5
MaxReplies == 3
\* the pieces in which the text of a listing collection reaches its file
MaxChunks == 2

\* --------------------------------------------------------- program constants
\* for i in range(1, 4)
MaxIterations == 3
\* is_sufficient = (pct >= 50 and pos >= 3)
MinPercent == 50
MinPositive == 3

\* ------------------------------------------------------------ Python values
Absent == <<>>
Num(n) == <<"num", n>>
Str(s) == <<"str", s>>
IsNum(v) == v # <<>> /\ v[1] = "num"

\* dict.get(key, default) for an optional entry holding a number
GetOr(v, default) == IF v = Absent THEN default ELSE v[2]

\* Python truthiness of an item's is_match / match_status entry
Truthy(v) == v = "True"

\* ------------------------------------------------------------- _parse_price
\* One unit of the fixed-point floats: five decimal places.
Unit == 10 * 10 * 10 * 10 * 10
FracDigits == 5

NBSP == "nbsp"
Whitespace == {" ", NBSP}
Digits == {"0", "1", "2", "3", "4", "5", "6", "7", "8", "9"}
\* _PRICE_RE = re.compile(r"[\d\.,]+")
NumericChars == Digits \cup {".", ","}

DigitVal(c) ==
    CASE c = "0" -> 0 [] c = "1" -> 1 [] c = "2" -> 2 [] c = "3" -> 3
      [] c = "4" -> 4 [] c = "5" -> 5 [] c = "6" -> 6 [] c = "7" -> 7
      [] c = "8" -> 8 [] c = "9" -> 9

RECURSIVE LStrip(_)
LStrip(s) == IF s # <<>> /\ Head(s) \in Whitespace THEN LStrip(Tail(s)) ELSE s

RECURSIVE RStrip(_)
RStrip(s) ==
    IF s # <<>> /\ s[Len(s)] \in Whitespace
    THEN RStrip(SubSeq(s, 1, Len(s) - 1))
    ELSE s

\* str.strip(): whitespace, the non-breaking space included, off both ends
PyStrip(s) == RStrip(LStrip(s))

\* str.replace(c, '') for a single character
RemoveChar(s, c) == SelectSeq(s, LAMBDA x : x # c)

\* str.replace('VB', ''): left to right, non-overlapping
RECURSIVE RemoveVB(_)
RemoveVB(s) ==
    IF Len(s) < 2 THEN s
    ELSE IF s[1] = "V" /\ s[2] = "B" THEN RemoveVB(SubSeq(s, 3, Len(s)))
    ELSE <<s[1]>> \o RemoveVB(Tail(s))

\* s.strip(); replace euro sign, 'VB', non-breaking space; strip()
CleanPrice(s) ==
    PyStrip(RemoveChar(RemoveVB(RemoveChar(PyStrip(s), "€")), NBSP))

\* _PRICE_RE.search(s): the leftmost maximal run of digits, dots and commas,
\* <<>> when there is none
RunStart(s) ==
    IF \E k \in 1..Len(s) : s[k] \in NumericChars
    THEN CHOOSE k \in 1..Len(s) :
            /\ s[k] \in NumericChars
            /\ \A j \in 1..(k - 1) : s[j] \notin NumericChars
    ELSE 0

RunEnd(s, start) ==
    CHOOSE k \in start..Len(s) :
        /\ \A j \in start..k : s[j] \in NumericChars
        /\ (k = Len(s) \/ s[k + 1] \notin NumericChars)

\* A faulty variant of SearchPrice: the longest run of digits, dots and
\* commas, the leftmost one among equally long runs.
SearchLongest(s) ==
    LET runs == {r \in (1..Len(s)) \X (1..Len(s)) :
                    /\ r[1] <= r[2]
                    /\ \A j \in r[1]..r[2] : s[j] \in NumericChars
                    /\ (r[1] = 1 \/ s[r[1] - 1] \notin NumericChars)
                    /\ (r[2] = Len(s) \/ s[r[2] + 1] \notin NumericChars)}
    IN  IF runs = {} THEN <<>>
        ELSE LET best == CHOOSE r \in runs :
                            \A q \in runs :
                                \/ q[2] - q[1] < r[2] - r[1]
                                \/ (q[2] - q[1] = r[2] - r[1] /\ r[1] <= q[1])
             IN  SubSeq(s, best[1], best[2])

SearchPrice(s) ==
    IF RunStart(s) = 0 THEN <<>>
    ELSE SubSeq(s, RunStart(s), RunEnd(s, RunStart(s)))

Has(s, c) == \E k \in 1..Len(s) : s[k] = c
ReplaceChar(s, c, d) == [k \in 1..Len(s) |-> IF s[k] = c THEN d ELSE s[k]]

\* A faulty variant of Normalise: a comma is always a thousands separator.
NormaliseCommaThousands(num) == RemoveChar(num, ",")

\* the locale rule of lines 62-69
Normalise(num) ==
    IF Has(num, ".") /\ Has(num, ",")
    THEN ReplaceChar(RemoveChar(num, "."), ",", ".")
    ELSE IF Has(num, ",") THEN ReplaceChar(num, ",", ".")
    ELSE num

RECURSIVE DigitsToNat(_)
DigitsToNat(s) ==
    IF s = <<>> THEN 0
    ELSE 10 * DigitsToNat(SubSeq(s, 1, Len(s) - 1)) + DigitVal(s[Len(s)])

RECURSIVE Pow10(_)
Pow10(n) == IF n = 0 THEN 1 ELSE 10 * Pow10(n - 1)

\* float(num) of a string of digits and dots: defined when it holds at most
\* one dot and at least one digit
FloatOk(num) ==
    /\ Cardinality({k \in 1..Len(num) : num[k] = "."}) <= 1
    /\ \E k \in 1..Len(num) : num[k] \in Digits

FloatOf(num) ==
    LET dot  == IF Has(num, ".") THEN CHOOSE k \in 1..Len(num) : num[k] = "." ELSE Len(num) + 1
        ip   == SubSeq(num, 1, dot - 1)
        fp   == SubSeq(num, dot + 1, Len(num))
        kept == SubSeq(fp, 1, IF Len(fp) < FracDigits THEN Len(fp) ELSE FracDigits)
    IN  DigitsToNat(ip) * Unit + DigitsToNat(kept) * Pow10(FracDigits - Len(kept))

\* _parse_price(str): [ok |-> TRUE, v |-> float] or [ok |-> FALSE] for ValueError
ParseError == [ok |-> FALSE, v |-> 0]

parse_chars(price_str) ==
    IF price_str = <<>> THEN ParseError
    ELSE LET num == Normalise(SearchPrice(CleanPrice(price_str)))
         IN  IF num = <<>> THEN ParseError
             ELSE IF ~FloatOk(num) THEN ParseError
             ELSE [ok |-> TRUE, v |-> FloatOf(num)]

\* The price texts of the model, each with its characters.
CharsOf ==
    ("120 €"      :> <<"1", "2", "0", " ", "€">>) @@
    ("1.234,56 €" :> <<"1", ".", "2", "3", "4", ",", "5", "6", " ", "€">>) @@
    ("N/A"        :> <<"N", "/", "A">>) @@
    ("199 € VB"   :> <<"1", "9", "9", " ", "€", " ", "V", "B">>) @@
    ("1234"       :> <<"1", "2", "3", "4">>) @@
    ("1,234.56"   :> <<"1", ",", "2", "3", "4", ".", "5", "6">>) @@
    ("abc"        :> <<"a", "b", "c">>) @@
    ("2 x 350 €"  :> <<"2", " ", "x", " ", "3", "5", "0", " ", "€">>) @@
    (""           :> <<>>)

PriceTexts == DOMAIN CharsOf

\* _parse_price of every price text, computed once
ParseTable == [t \in PriceTexts |-> parse_chars(CharsOf[t])]

parse_price(text) == ParseTable[text]

\* A price_str argument: a str with its characters, or None.
PyNone == [type |-> "NoneType"]
StrValue(chars) == [type |-> "str", chars |-> chars]
Literal(text) == StrValue(CharsOf[text])

\* _parse_price(price_str), lines 44-45 first: None and every non-str is
\* "invalid price"
ParsePrice(price_str) ==
    IF price_str.type # "str" THEN ParseError ELSE parse_chars(price_str.chars)

\* ------------------------------------------------ calculate_from_evaluation
\* round(x / d, 0) to the nearest integer, a tie going to the even neighbour
RoundDiv(n, d) ==
    LET q == n \div d
        r == n % d
    IN  IF 2 * r < d THEN q
        ELSE IF 2 * r > d THEN q + 1
        ELSE IF q % 2 = 0 THEN q ELSE q + 1

\* round(x, 2) of a float: the result in cents
Round2(v) == RoundDiv(v, Unit \div 100)

RECURSIVE InsertSorted(_, _)
InsertSorted(s, x) ==
    IF s = <<>> THEN <<x>>
    ELSE IF x <= Head(s) THEN <<x>> \o s
    ELSE <<Head(s)>> \o InsertSorted(Tail(s), x)

RECURSIVE SortPrices(_)
SortPrices(s) == IF s = <<>> THEN <<>> ELSE InsertSorted(SortPrices(Tail(s)), Head(s))

\* A faulty variant of MedianCents: an even-sized list gives its upper middle
\* value.
MedianUpperMiddle(prices) ==
    LET s == SortPrices(prices)
    IN  Round2(s[Len(s) \div 2 + 1])

\* round(statistics.median(prices), 2) in cents: the middle value, or the
\* mean of the two middle values of an even-sized list
MedianCents(prices) ==
    LET s == SortPrices(prices)
        n == Len(s)
    IN  IF n % 2 = 1 THEN Round2(s[(n + 1) \div 2])
        ELSE RoundDiv(s[n \div 2] + s[n \div 2 + 1], 2 * (Unit \div 100))

SeqMin(s) == CHOOSE x \in {s[k] : k \in 1..Len(s)} : \A k \in 1..Len(s) : x <= s[k]
SeqMax(s) == CHOOSE x \in {s[k] : k \in 1..Len(s)} : \A k \in 1..Len(s) : x >= s[k]

\* {'min': ..., 'max': ..., 'median': ...} of a non-empty list, None (<<>>)
\* of an empty one
PriceBlock(prices) ==
    IF prices = <<>> THEN <<>>
    ELSE << [min    |-> Round2(SeqMin(prices)),
             max    |-> Round2(SeqMax(prices)),
             median |-> MedianCents(prices)] >>

\* price_str = it.get('price') or it.get('price_str') or ''
PriceStr(it) ==
    IF it.price # "" THEN it.price
    ELSE IF "price_str" \in DOMAIN it THEN it.price_str
    ELSE ""

\* the loop of lines 138-152: the parsed prices of the items, in order
RECURSIVE ParsedPrices(_)
ParsedPrices(items) ==
    IF items = <<>> THEN <<>>
    ELSE LET p == parse_price(PriceStr(Head(items)))
         IN  (IF p.ok THEN <<p.v>> ELSE <<>>) \o ParsedPrices(Tail(items))

\* if it.get('is_match') is True
IsMatchTrue(it) == it.is_match = "True"

\* A faulty variant of calculate_from_evaluation: a listing whose price does
\* not parse is not counted at all.
calculate_from_parsed(items) ==
    LET prices  == ParsedPrices(items)
        matches == ParsedPrices(SelectSeq(items, IsMatchTrue))
    IN  [count_prices_parsed      |-> Len(prices),
         count_listings           |-> Len(prices),
         price_statistics_all     |-> PriceBlock(prices),
         price_statistics_matches |-> PriceBlock(matches)]

calculate_from_evaluation(items) ==
    LET prices  == ParsedPrices(items)
        matches == ParsedPrices(SelectSeq(items, IsMatchTrue))
    IN  [count_prices_parsed      |-> Len(prices),
         count_listings           |-> Len(items),
         price_statistics_all     |-> PriceBlock(prices),
         price_statistics_matches |-> PriceBlock(matches)]

\* ------------------------------------------------- EvaluationMetricsTool._run
\* Percentages are counted in hundredths of a percent (two decimals).
PctUnit == 10 * 10

\* isinstance(i, dict) and (i.get("is_match") is True or i.get("match_status") is True)
CountsAsPositive(it) ==
    it.type = "dict" /\ (it.is_match = "True" \/ it.match_status = "True")

\* A faulty variant of metrics_run: the verdict looks at the percentage only.
metrics_by_percentage(items) ==
    IF items = <<>> THEN [error |-> TRUE]
    ELSE LET pos   == Len(SelectSeq(items, CountsAsPositive))
             total == Len(items)
             pct   == RoundDiv(pos * 100 * PctUnit, total)
         IN  [error              |-> FALSE,
              count_positive     |-> pos,
              count_negative     |-> total - pos,
              match_percentage   |-> pct,
              total_listings     |-> total,
              overall_sufficiency |->
                  IF pct >= MinPercent * PctUnit
                  THEN "sufficient" ELSE "not sufficient"]

\* the JSON the tool returns for a list of evaluated items
metrics_run(items) ==
    IF items = <<>> THEN [error |-> TRUE]
    ELSE LET pos   == Len(SelectSeq(items, CountsAsPositive))
             total == Len(items)
             pct   == RoundDiv(pos * 100 * PctUnit, total)
         IN  [error              |-> FALSE,
              count_positive     |-> pos,
              count_negative     |-> total - pos,
              match_percentage   |-> pct,
              total_listings     |-> total,
              overall_sufficiency |->
                  IF pct >= MinPercent * PctUnit /\ pos >= MinPositive
                  THEN "sufficient" ELSE "not sufficient"]

\* ------------------------------------------------------ collaborator outputs
\* The marketplace: listing v carries the price text PriceTable[v] (cyclically).
PriceTable == <<"120 €", "1.234,56 €", "N/A", "199 € VB">>

PriceOf(v) == PriceTable[((v - 1) % Len(PriceTable)) + 1]

\* How the judge may flag one listing: is_match true (the id echoed as a string
\* or as a number), is_match false, is_match left out, or only match_status set.
ItemKinds == {"match", "match_int", "no", "unset", "status"}

\* the evaluated listing v as judged in iteration i
Item(kind, v, i) ==
    [type         |-> "dict",
     id           |-> [t |-> IF kind = "match_int" THEN "int" ELSE "str", v |-> v],
     is_match     |-> CASE kind \in {"match", "match_int"} -> "True"
                        [] kind = "no" -> "False"
                        [] OTHER -> "absent",
     match_status |-> IF kind = "status" THEN "True" ELSE "absent",
     price        |-> PriceOf(v),
     note         |-> i]

\* one evaluated item per listing, each flagged with a kind of `kinds`
ItemLists(i, kinds) ==
    { [v \in 1..MaxListing |-> Item(k[v], v, i)] : k \in [1..MaxListing -> kinds] }

FeedbackText(i) == CASE i = 1 -> "fb1" [] i = 2 -> "fb2" [] OTHER -> "fb3"

Payload(items, cp, cn, tl, pct, suff, fb) ==
    [type                          |-> "dict",
     individual_results_evaluation |-> items,
     count_positive                |-> cp,
     count_negative                |-> cn,
     total_listings                |-> tl,
     match_percentage              |-> pct,
     overall_sufficiency           |-> suff,
     query_improvement_feedback    |-> fb]

\* The judge flagged every listing true or false and copied the output of
\* EvaluationMetricsTool into its answer.
ToolPayloads(i) ==
    { LET m == metrics_run(items)
      IN  Payload(items, Num(m.count_positive), Num(m.count_negative),
                  Num(m.total_listings), Num(m.match_percentage),
                  Str(m.overall_sufficiency), Str(FeedbackText(i))) :
        items \in ItemLists(i, {"match", "no"}) }

\* The judge returned the per-listing list and nothing else.
BarePayloads(i) ==
    { Payload(items, Absent, Absent, Absent, Absent, Absent, Absent) :
        items \in ItemLists(i, {"match_int", "unset", "status"}) }

\* The judge reported metrics of its own, with no per-listing list.
ReportedMetrics ==
    { [cp |-> Absent, cn |-> Absent, tl |-> Absent, pct |-> Absent],
      [cp |-> Absent, cn |-> Absent, tl |-> Absent, pct |-> Num(40 * PctUnit)],
      [cp |-> Absent, cn |-> Absent, tl |-> Absent, pct |-> Num(55 * PctUnit)],
      [cp |-> Absent, cn |-> Absent, tl |-> Absent, pct |-> Num(60 * PctUnit)],
      [cp |-> Num(3), cn |-> Num(2), tl |-> Num(5), pct |-> Num(60 * PctUnit)] }
Verdicts == {Absent, Str("sufficient"), Str("not sufficient")}

ReportPayloads(i) ==
    { Payload(<<>>, m.cp, m.cn, m.tl, m.pct, suff, fb) :
        m \in ReportedMetrics, suff \in Verdicts,
        fb \in {Absent, Str(FeedbackText(i))} }

\* Answers of a shape the controller does not expect: plain text, a list
\* holding a non-object, a non-numeric match_percentage.
TextPayload == [type |-> "str"]
BadItemPayload ==
    Payload(<<[type |-> "str"]>>, Absent, Absent, Absent, Absent, Absent, Absent)
BadPctPayload ==
    Payload(<<>>, Absent, Absent, Absent, Str("high"), Absent, Absent)

\* every answer of the judge in iteration i, computed once
JudgeTable ==
    [i \in 1..MaxIterations |->
        ToolPayloads(i) \cup BarePayloads(i) \cup ReportPayloads(i)
            \cup {TextPayload, BadItemPayload, BadPctPayload}]

\* Without a product profile the judge has nothing to compare a listing with:
\* it flags every listing false, or answers in plain text.
NoProfileTable ==
    [i \in 1..MaxIterations |->
        { LET m == metrics_run(items)
          IN  Payload(items, Num(m.count_positive), Num(m.count_negative),
                      Num(m.total_listings), Num(m.match_percentage),
                      Str(m.overall_sufficiency), Str(FeedbackText(i))) :
            items \in ItemLists(i, {"no"}) } \cup {TextPayload}]

\* the answers of the judge given the image analysis img
JudgePayloads(i, img) ==
    IF img.type = "dict" /\ img.status = "SUCCESS" THEN JudgeTable[i] ELSE NoProfileTable[i]

\* An error text is its length: ErrText(n) is a message of n characters.
ErrText(n) == <<"text", n>>
ErrLens == {40, 250}
\* str(e)[:200]
ErrorLimit == 200
Truncate(n) == IF n < ErrorLimit THEN n ELSE ErrorLimit
\* len("maximum recursion depth exceeded")
RecursionTextLen == 32

\* What _parse makes of the first task's output: a product profile, an object
\* with an "error" key, the vision tool's {status: "ERROR", reason}, or text.
Profile ==
    [type |-> "dict", status |-> "SUCCESS", error |-> Absent, reason |-> Absent,
     item_name |-> Str("item"), condition |-> Str("used"), description |-> Str("desc")]
ErrorKeyAnalysis(n) ==
    [type |-> "dict", status |-> "", error |-> ErrText(n), reason |-> Absent,
     item_name |-> Absent, condition |-> Absent, description |-> Absent]
StatusErrorAnalysis ==
    [type |-> "dict", status |-> "ERROR", error |-> Absent, reason |-> Str("reason"),
     item_name |-> Absent, condition |-> Absent, description |-> Absent]
TextAnalysis == [type |-> "str"]

ImageAnalyses ==
    {Profile, StatusErrorAnalysis, TextAnalysis} \cup {ErrorKeyAnalysis(n) : n \in ErrLens}

\* The query task's raw output: {"search_query": ...}, or in Phase 1 a bare
\* string as well.
QueryText(i) == CASE i = 1 -> "q1" [] i = 2 -> "q2" [] OTHER -> "q3"
QueryOutputs(i) ==
    { [type |-> "dict", search_query |-> QueryText(i)] } \cup
    { [type |-> "str", text |-> QueryText(i)] : x \in IF i = 1 THEN {1} ELSE {} }

\* query_data.get("search_query", str(query_data)) if isinstance(query_data, dict)
\* else str(query_data)
ParseQuery(q) == IF q.type = "dict" THEN q.search_query ELSE q.text

\* ------------------------------------------------------------- the run state
VARIABLES
    pc,                  \* where run is: start, query, scrape, verify, evaluate,
                         \* returned (a result was returned), raised (an exception left run)
    i,                   \* the loop index
    img_analysis,        \* the parsed image analysis
    current_query_json,  \* the raw query output in use
    query,               \* the search query of this iteration
    feedback,            \* the feedback text for the next refinement
    history,             \* the list of step_res
    best_res,            \* the best-iteration tracker
    all_unique_matches,  \* the accumulator: a dict, as its (key, value) pairs in insertion order
    scraper_file,        \* kleinanzeigen_items.json: absent, corrupt, empty, data
    fresh,               \* the retrieval call of this iteration replaced the file
    calls,               \* every collaborator call made, in order
    skips,               \* the iterations given up, each with the step that gave up
    scrape_out,          \* how market_search.run ended in this iteration, "none" outside steps 2-3
    answers,             \* the shape of every answer the judge returned, in order
    result,              \* what run returned
    item_price,          \* the summary _finalize wrote
    func,                \* the function called on its own, "none" while run is modelled
    args,                \* its argument
    ret,                 \* <<>> until it returns, then <<its value>>
    json_file,           \* kleinanzeigen_items.json as MarketSearch._run and its readers see it
    tmp_file,            \* kleinanzeigen_items.tmp.json
    save_pc,             \* where MarketSearch._run stands, "idle" when it is not followed
    scraped_data         \* what the latest reader of json_file loaded

vars == <<pc, i, img_analysis, current_query_json, query, feedback, history, best_res,
          all_unique_matches, scraper_file, fresh, calls, skips, scrape_out, answers,
          result, item_price, func, args, ret, json_file, tmp_file, save_pc, scraped_data>>

\* the variables of a function called on its own
callvars == <<func, args, ret>>

\* the variables of the save step of MarketSearch._run
filevars == <<json_file, tmp_file, save_pc, scraped_data>>

\* A file's content: the collection it was written from, the pieces of its
\* text that are in the file, and the pieces the whole text has.
File(data, chunks, of) == [data |-> data, chunks |-> chunks, of |-> of]
\* no such file
NoFile == File("none", 0, 0)

\* the save step of MarketSearch._run is not followed
FilesIdle ==
    /\ json_file = NoFile
    /\ tmp_file = NoFile
    /\ save_pc = "idle"
    /\ scraped_data = NoFile

\* what an earlier run or another process left behind
FileStates == {"absent", "corrupt", "data"}

\* best_res = {"match_percentage": 0}
InitBest == [match_percentage |-> 0]

Init ==
    /\ pc = "start"
    /\ i = 0
    /\ img_analysis = <<>>
    /\ current_query_json = <<>>
    /\ query = ""
    /\ feedback = "None"
    /\ history = <<>>
    /\ best_res = <<>>
    /\ all_unique_matches = <<>>
    /\ scraper_file \in FileStates
    /\ fresh = FALSE
    /\ calls = <<>>
    /\ skips = <<>>
    /\ scrape_out = "none"
    /\ answers = <<>>
    /\ result = <<>>
    /\ item_price = <<>>
    /\ func = "none"
    /\ args = <<>>
    /\ ret = <<>>
    /\ FilesIdle

Call(c, idx, arg) == [c |-> c, i |-> idx, arg |-> arg]

\* A faulty variant of ErrorResult: the error path reports a first iteration.
ErrorResultWithIteration(err) ==
    [success |-> FALSE, error |-> err, item_description |-> Absent,
     best_iteration |-> 1, best_result |-> <<>>, history |-> <<>>]

\* the dict run returns from its Phase 1 error paths
ErrorResult(err) ==
    [success |-> FALSE, error |-> err, item_description |-> Absent,
     best_iteration |-> 0, best_result |-> <<>>, history |-> <<>>]

\* ----------------------------------------------------------------- _finalize
\* A faulty variant of BestIteration: the default is 1 instead of 0.
BestIterationFromOne(best) == IF "iteration" \in DOMAIN best THEN best.iteration ELSE 1

\* best_res.get("iteration", 0)
BestIteration(best) == IF "iteration" \in DOMAIN best THEN best.iteration ELSE 0

\* A faulty variant of StatsSource: the all-items statistics come first.
StatsSourceAllFirst(best) ==
    IF "price_statistics" \notin DOMAIN best THEN <<>>
    ELSE IF best.price_statistics.price_statistics_all # <<>>
         THEN best.price_statistics.price_statistics_all
    ELSE best.price_statistics.price_statistics_matches

\* (best or {}).get("price_statistics") or {}, then matches or all or {}
StatsSource(best) ==
    IF "price_statistics" \notin DOMAIN best THEN <<>>
    ELSE IF best.price_statistics.price_statistics_matches # <<>>
         THEN best.price_statistics.price_statistics_matches
    ELSE best.price_statistics.price_statistics_all

Description(img) == IF img.type = "dict" THEN img.description ELSE Absent

\* A faulty variant of FinalResult: only the last entry of the history is
\* handed back.
FinalResultLatestOnly(success, iter, best, hist, img) ==
    [success |-> success, error |-> Absent, item_description |-> Description(img),
     best_iteration |-> iter, best_result |-> best,
     history |-> IF hist = <<>> THEN <<>> ELSE <<hist[Len(hist)]>>]

FinalResult(success, iter, best, hist, img) ==
    [success |-> success, error |-> Absent, item_description |-> Description(img),
     best_iteration |-> iter, best_result |-> best, history |-> hist]

ItemPrice(best, img) ==
    LET src == StatsSource(best)
    IN  [item_name   |-> IF img.type = "dict" THEN img.item_name ELSE Absent,
         condition   |-> IF img.type = "dict" THEN img.condition ELSE Absent,
         description |-> Description(img),
         range       |-> IF src = <<>> THEN <<>> ELSE <<src[1].min, src[1].max>>,
         median      |-> IF src = <<>> THEN Absent ELSE Num(src[1].median)]

\* -------------------------------------------------------- the accumulator
\* A faulty variant of AccKey: the id itself is the key, a number and its text
\* being different keys.
RawIdKey(m) == m.id

\* A faulty variant of IsCurrentMatch: every evaluated listing is kept.
EveryItemMatches(item) == TRUE

\* str(m.get("id"))
PyStr(id) == [t |-> "str", v |-> id.v]
AccKey(m) == PyStr(m.id)

\* item.get("is_match") or item.get("match_status")
IsCurrentMatch(item) == Truthy(item.is_match) \/ Truthy(item.match_status)

\* all_unique_matches[key] = m: an existing key keeps its place in the dict
Put(acc, key, m) ==
    IF \E j \in 1..Len(acc) : acc[j].k = key
    THEN [j \in 1..Len(acc) |-> IF acc[j].k = key THEN [k |-> key, v |-> m] ELSE acc[j]]
    ELSE Append(acc, [k |-> key, v |-> m])

\* for m in current_matches: all_unique_matches[str(m.get("id"))] = m
RECURSIVE MergeMatches(_, _)
\* A faulty variant of MergeMatches: the accumulator is replaced by the
\* matches of the current iteration.
CurrentMatchesOnly(acc, ms) ==
    [j \in 1..Len(ms) |-> [k |-> AccKey(ms[j]), v |-> ms[j]]]

MergeMatches(acc, ms) ==
    IF ms = <<>> THEN acc
    ELSE MergeMatches(Put(acc, AccKey(Head(ms)), Head(ms)), Tail(ms))

\* list(all_unique_matches.values())
Values(acc) == [j \in 1..Len(acc) |-> acc[j].v]
Keys(acc) == {acc[j].k : j \in 1..Len(acc)}

\* ----------------------------------------------------- one completed iteration
\* if not isinstance(eval_data, dict): eval_data = {"individual_results_evaluation": []}
EmptyEval == Payload(<<>>, Absent, Absent, Absent, Absent, Absent, Absent)
EvalData(p) == IF p.type = "dict" THEN p ELSE EmptyEval

\* item.get on an item that is no dict raises AttributeError (line 316)
RaisesAtItems(eval) ==
    \E k \in 1..Len(eval.individual_results_evaluation) :
        eval.individual_results_evaluation[k].type # "dict"

\* match_pct > best_res.get(...) on a non-number raises TypeError (line 367)
RaisesAtBest(eval) ==
    eval.match_percentage # Absent /\ ~IsNum(eval.match_percentage)

CurrentMatches(eval) == SelectSeq(eval.individual_results_evaluation, IsCurrentMatch)

IsMatchTruthy(e) == Truthy(e.is_match)
IsMatchFalsy(e) == ~Truthy(e.is_match)

\* lines 330-341: the reported metrics, or the local fallback
CountPositive(eval) ==
    IF eval.count_positive # Absent THEN eval.count_positive[2]
    ELSE Len(SelectSeq(eval.individual_results_evaluation, IsMatchTruthy))
CountNegative(eval) ==
    IF eval.count_negative # Absent THEN eval.count_negative[2]
    ELSE Len(SelectSeq(eval.individual_results_evaluation, IsMatchFalsy))
TotalListings(eval) ==
    IF eval.total_listings # Absent THEN eval.total_listings[2]
    ELSE CountPositive(eval) + CountNegative(eval)
\* eval_data.get("match_percentage", 0)
MatchPct(eval) == GetOr(eval.match_percentage, 0)

\* A faulty variant of StepRes: the statistics cover this iteration's matches only.
StepResCurrentOnly(idx, q, eval, acc) ==
    [iteration        |-> idx,
     query            |-> q,
     evaluation       |-> eval,
     count_positive   |-> CountPositive(eval),
     count_negative   |-> CountNegative(eval),
     total_listings   |-> TotalListings(eval),
     match_percentage |-> MatchPct(eval),
     price_statistics |-> calculate_from_evaluation(CurrentMatches(eval))]

\* step_res, lines 351-360
StepRes(idx, q, eval, acc) ==
    [iteration        |-> idx,
     query            |-> q,
     evaluation       |-> eval,
     count_positive   |-> CountPositive(eval),
     count_negative   |-> CountNegative(eval),
     total_listings   |-> TotalListings(eval),
     match_percentage |-> MatchPct(eval),
     price_statistics |-> calculate_from_evaluation(Values(acc))]

\* if match_pct > best_res.get("match_percentage", -1): best_res = step_res
NewBest(best, step) ==
    IF step.match_percentage > best.match_percentage THEN step ELSE best

\* A faulty variant of IsSufficient: the verdict is ignored.
NeverSufficient(eval) == FALSE

\* if eval_data.get("overall_sufficiency") == "sufficient"
IsSufficient(eval) == eval.overall_sufficiency = Str("sufficient")

\* A faulty variant of NextFeedback: the judge's feedback is dropped.
NoFeedbackKept(eval) == "None"

\* eval_data.get("query_improvement_feedback", "None")
NextFeedback(eval) ==
    IF eval.query_improvement_feedback = Absent THEN "None"
    ELSE eval.query_improvement_feedback[2]

\* --------------------------------------------------------- ResellWorkflow.run
\* An uncaught exception leaves run: nothing is returned.
Raise ==
    /\ pc' = "raised"
    /\ UNCHANGED <<i, fresh, result, item_price>>

\* return from a Phase 1 error path
ReturnError(err) ==
    /\ pc' = "returned"
    /\ result' = ErrorResult(err)
    /\ UNCHANGED <<i, fresh, item_price>>

\* return self._finalize(success, iter, best, hist, img_analysis)
Finalize(success, iter, best, hist) ==
    /\ pc' = "returned"
    /\ result' = FinalResult(success, iter, best, hist, img_analysis)
    /\ item_price' = ItemPrice(best, img_analysis)
    /\ fresh' = FALSE
    /\ UNCHANGED i

\* A faulty variant of Advance: a given-up attempt is made again under the
\* same index.
RetrySameIndex(best, hist) ==
    /\ i' = i
    /\ pc' = "query"
    /\ fresh' = FALSE
    /\ UNCHANGED <<result, item_price>>

\* `continue`, or the end of the loop body: the next index, or after the last
\* one the return of line 381
Advance(best, hist) ==
    IF i < MaxIterations
    THEN /\ i' = i + 1
         /\ pc' = "query"
         /\ fresh' = FALSE
         /\ UNCHANGED <<result, item_price>>
    ELSE Finalize(FALSE, BestIteration(best), best, hist)

\* A faulty variant of Skip: after the failure the same index goes on with
\* the retrieval step.
SkipFallsThrough(step) ==
    /\ skips' = Append(skips, [i |-> i, step |-> step])
    /\ pc' = "scrape"
    /\ UNCHANGED <<i, fresh, result, item_price>>

\* an iteration given up at `step` (the code prints why and continues)
Skip(step) ==
    /\ skips' = Append(skips, [i |-> i, step |-> step])
    /\ Advance(best_res, history)

\* A faulty variant of NewAccumulator: the accumulator of the object's
\* previous run is taken over.
KeptAccumulator == all_unique_matches

\* all_unique_matches = {}
NewAccumulator == <<>>

\* Phase 1, lines 150-213: the analysis crew, the error check, the loop's
\* tracking variables
Phase1 ==
    /\ pc = "start"
    /\ UNCHANGED <<callvars, filevars>>
    /\ calls' = Append(calls, Call("analysis", 0, "None"))
    /\ UNCHANGED <<query, scraper_file, skips, scrape_out, answers>>
    /\ \/ \E n \in ErrLens :
            /\ ReturnError(ErrText(Truncate(n)))
            /\ UNCHANGED <<img_analysis, current_query_json, feedback, history,
                           best_res, all_unique_matches>>
       \/ /\ ReturnError(ErrText(RecursionTextLen))
          /\ UNCHANGED <<img_analysis, current_query_json, feedback, history,
                         best_res, all_unique_matches>>
       \/ \E img \in ImageAnalyses :
            /\ img_analysis' = img
            /\ IF img.type = "dict" /\ img.error # Absent
               THEN /\ ReturnError(img.error)
                    /\ UNCHANGED <<current_query_json, feedback, history, best_res,
                                   all_unique_matches>>
               ELSE /\ history' = <<>>
                    /\ best_res' = InitBest
                    /\ feedback' = "None"
                    /\ all_unique_matches' = NewAccumulator
                    /\ \/ /\ Raise
                          /\ UNCHANGED current_query_json
                       \/ \E q \in QueryOutputs(1) :
                            /\ current_query_json' = q
                            /\ i' = 1
                            /\ pc' = "query"
                            /\ UNCHANGED <<fresh, result, item_price>>

\* Step 1, lines 225-246: the refinement crew from iteration 2 on, then the
\* query text
StepQuery ==
    /\ pc = "query"
    /\ UNCHANGED <<callvars, filevars>>
    /\ UNCHANGED <<img_analysis, feedback, history, best_res, all_unique_matches,
                   scraper_file, scrape_out, answers>>
    /\ \/ /\ i = 1
          /\ query' = ParseQuery(current_query_json)
          /\ pc' = "scrape"
          /\ UNCHANGED <<i, current_query_json, fresh, calls, skips, result, item_price>>
       \/ /\ i > 1
          /\ calls' = Append(calls, Call("refine", i, feedback))
          /\ \/ /\ Skip("query")
                /\ UNCHANGED <<current_query_json, query>>
             \/ \E q \in QueryOutputs(i) :
                    /\ current_query_json' = q
                    /\ query' = ParseQuery(q)
                    /\ pc' = "scrape"
                    /\ UNCHANGED <<i, fresh, skips, result, item_price>>

\* A faulty variant of StepScrape: an exception of market_search.run leaves run.
StepScrapeAborts ==
    /\ pc = "scrape"
    /\ UNCHANGED <<callvars, filevars>>
    /\ calls' = Append(calls, Call("scrape", i, query))
    /\ \E out \in {"raised", "error", "written", "written_empty"} :
        /\ scraper_file' = CASE out = "written" -> "data"
                             [] out = "written_empty" -> "empty"
                             [] OTHER -> scraper_file
        /\ scrape_out' = out
        /\ IF out = "raised"
           THEN Raise
           ELSE /\ fresh' = (out \in {"written", "written_empty"})
                /\ pc' = "verify"
                /\ UNCHANGED <<i, result, item_price>>
    /\ UNCHANGED <<img_analysis, current_query_json, query, feedback, history,
                   best_res, all_unique_matches, skips, answers>>

\* Step 2, lines 251-258: market_search.run raises, returns "Error: ..." with
\* the file untouched, or replaces the file with the scraped list
ScrapeOutcomes == {"raised", "error", "written", "written_empty"}

StepScrape ==
    /\ pc = "scrape"
    /\ UNCHANGED <<callvars, filevars>>
    /\ calls' = Append(calls, Call("scrape", i, query))
    /\ \E out \in ScrapeOutcomes :
        /\ scraper_file' = CASE out = "written" -> "data"
                             [] out = "written_empty" -> "empty"
                             [] OTHER -> scraper_file
        /\ fresh' = (out \in {"written", "written_empty"})
        /\ scrape_out' = out
    /\ pc' = "verify"
    /\ UNCHANGED <<i, img_analysis, current_query_json, query, feedback, history,
                   best_res, all_unique_matches, skips, answers, result, item_price>>

\* A faulty variant of FileUsable: whatever the file holds is taken.
AnyFileUsable(f) == TRUE

\* Step 3, lines 264-284: the file exists, loads and is not empty
FileUsable(f) == f = "data"

StepVerify ==
    /\ pc = "verify"
    /\ UNCHANGED <<callvars, filevars>>
    /\ IF FileUsable(scraper_file)
       THEN /\ pc' = "evaluate"
            /\ UNCHANGED <<i, fresh, skips, result, item_price>>
       ELSE Skip("verify")
    /\ scrape_out' = "none"
    /\ UNCHANGED <<img_analysis, current_query_json, query, feedback, history,
                   best_res, all_unique_matches, scraper_file, calls, answers>>

\* what eval_data is right after _parse (line 297): the text _parse hands
\* back when the answer is no JSON, an object whose list holds a non-object,
\* an object whose match_percentage is no number, or a well-formed object
Shape(p) ==
    IF p.type # "dict" THEN "text"
    ELSE IF RaisesAtItems(p) THEN "bad_items"
    ELSE IF RaisesAtBest(p) THEN "bad_percentage"
    ELSE "object"

\* Steps 3-5, lines 286-377: the evaluation crew, the accumulator, the price
\* statistics, the metrics, history, the best tracker, the sufficiency check
StepEvaluate ==
    /\ pc = "evaluate"
    /\ UNCHANGED <<callvars, filevars>>
    /\ calls' = Append(calls, Call("judge", i, feedback))
    /\ UNCHANGED <<img_analysis, current_query_json, query, scraper_file, scrape_out>>
    /\ \/ /\ Skip("judge")
          /\ UNCHANGED <<feedback, history, best_res, all_unique_matches, answers>>
       \/ \E p \in JudgePayloads(i, img_analysis) :
            /\ answers' = Append(answers, [i |-> i, shape |-> Shape(p)])
            /\ LET eval == EvalData(p)
                   acc  == MergeMatches(all_unique_matches, CurrentMatches(eval))
                   step == StepRes(i, query, eval, acc)
                   hist == Append(history, step)
                   best == NewBest(best_res, step)
               IN  IF RaisesAtItems(eval) \/ RaisesAtBest(eval)
                   THEN /\ Raise
                        /\ UNCHANGED <<feedback, history, best_res, all_unique_matches, skips>>
                   ELSE /\ skips' = skips
                        /\ all_unique_matches' = acc
                        /\ history' = hist
                        /\ best_res' = best
                        /\ IF IsSufficient(eval)
                           THEN /\ Finalize(TRUE, i, best, hist)
                                /\ UNCHANGED feedback
                           ELSE /\ feedback' = NextFeedback(eval)
                                /\ Advance(best, hist)

\* ------------------------------------------------ the functions on their own
\* run is not started while a function is called on its own
RunIdle ==
    /\ pc = "start"
    /\ i = 0
    /\ img_analysis = <<>>
    /\ current_query_json = <<>>
    /\ query = ""
    /\ feedback = "None"
    /\ history = <<>>
    /\ best_res = <<>>
    /\ all_unique_matches = <<>>
    /\ scraper_file = "absent"
    /\ fresh = FALSE
    /\ calls = <<>>
    /\ skips = <<>>
    /\ scrape_out = "none"
    /\ answers = <<>>
    /\ result = <<>>
    /\ item_price = <<>>

runvars == <<pc, i, img_analysis, current_query_json, query, feedback, history, best_res,
             all_unique_matches, scraper_file, fresh, calls, skips, scrape_out, answers,
             result, item_price>>

\* the characters a tried price string is made of
PriceAlphabet == {"1", "5", ".", ",", " ", "a"}
PriceStrings == UNION {[1..n -> PriceAlphabet] : n \in 0..MaxPriceLen}
PriceInputs ==
    {PyNone} \cup {Literal(t) : t \in PriceTexts} \cup {StrValue(c) : c \in PriceStrings}

\* the listings a tried list is made of: a price that parses or not, flagged
\* or not, the price under 'price' or under 'price_str'
ListingShapes ==
    { [type |-> "dict", price |-> p, is_match |-> m] :
        p \in {"120 €", "1.234,56 €", "N/A", "199 € VB"}, m \in {"True", "False"} }
    \cup { [type |-> "dict", price |-> "", is_match |-> "absent"],
           [type |-> "dict", price |-> "", price_str |-> "120 €", is_match |-> "True"] }
ListingLists == UNION {[1..n -> ListingShapes] : n \in 0..MaxItems}

\* the evaluated items a tried list is made of: `pos` positive ones flagged
\* by is_match or by match_status, then negative ones (is_match false, no
\* flag at all, or an entry that is no object)
Evaluated(kind, v) == IF kind = "text" THEN [type |-> "str"] ELSE Item(kind, v, 1)
EvaluationLists ==
    { [v \in 1..total |-> Evaluated(IF v <= pos THEN pk ELSE nk, v)] :
        total \in 0..MaxTotal, pos \in 0..MaxTotal,
        pk \in {"match", "status"}, nk \in {"no", "unset", "text"} }

\* ------------------------------------------------------ QwenVisionTool._run
\* image_urls = image_urls[:4]
ImageLimit == 4

\* an url whose image loads, and one whose image does not
UrlKinds == {"ok", "bad"}

\* What one call of the vision model gives: a JSON object without status
\* ERROR, a JSON object with status ERROR, an answer that is no JSON object,
\* or an exception of the client.
ModelReplies == {"SUCCESS", "ERROR", "text", "raise"}

\* The argument of _run: a list of urls (a string is turned into a list by
\* lines 97-103), or a value that is no list. `replies` is what the vision
\* model answers to the first, second, ... call of this invocation.
VisionInputs ==
    { [type |-> "list", urls |-> u, replies |-> r] :
        u \in UNION {[1..n -> UrlKinds] : n \in 0..MaxUrls},
        r \in [1..MaxReplies -> ModelReplies] }
    \cup { [type |-> "other", urls |-> <<>>, replies |-> r] :
             r \in {[n \in 1..MaxReplies |-> "SUCCESS"]} }

\* what _run returns: the status and reason of the JSON text, with the number
\* of model calls made and the number of urls of the invocation that returned
VisionResult(status, reason, made, images) ==
    [status |-> status, reason |-> reason, calls |-> made, images |-> images]

\* A faulty variant of RetryUrls: the retry keeps the first half of the images.
RetryFirstHalf(urls) == SubSeq(urls, 1, Len(urls) \div 2)

\* [image_urls[0]]
RetryUrls(urls) == <<urls[1]>>

\* _run(image_urls) after `made` calls of the model in this invocation
RECURSIVE vision_run(_, _, _)
vision_run(image_urls, replies, made) ==
    IF Len(image_urls) = 0
    THEN VisionResult("ERROR", "No image URLs provided", made, 0)
    ELSE
    LET urls   == SubSeq(image_urls, 1,
                         IF Len(image_urls) < ImageLimit THEN Len(image_urls) ELSE ImageLimit)
        loaded == {n \in 1..Len(urls) : urls[n] = "ok"}
    IN  IF loaded = {}
        THEN VisionResult("ERROR", "No accessible images found", made, Len(urls))
        ELSE
        LET reply == replies[made + 1]
        IN  CASE reply = "raise" ->
                    VisionResult("ERROR", "exception", made + 1, Len(urls))
              [] reply = "text" ->
                    VisionResult("ERROR", "Invalid JSON response from model", made + 1, Len(urls))
              [] reply = "ERROR" /\ Len(urls) > 1 ->
                    vision_run(RetryUrls(urls), replies, made + 1)
              [] reply = "ERROR" ->
                    VisionResult("ERROR", "model", made + 1, Len(urls))
              [] OTHER ->
                    VisionResult("SUCCESS", "none", made + 1, Len(urls))

QwenVisionTool_run(a) ==
    IF a.type # "list"
    THEN VisionResult("ERROR", "image_urls must be a list", 0, 0)
    ELSE vision_run(a.urls, a.replies, 0)

InitFunctions ==
    /\ RunIdle
    /\ FilesIdle
    /\ ret = <<>>
    /\ \/ func = "_parse_price" /\ args \in PriceInputs
       \/ func = "calculate_from_evaluation" /\ args \in ListingLists
       \/ func = "EvaluationMetricsTool._run" /\ args \in EvaluationLists
       \/ func = "QwenVisionTool._run" /\ args \in VisionInputs

CallParsePrice ==
    /\ func = "_parse_price"
    /\ ret = <<>>
    /\ ret' = <<ParsePrice(args)>>
    /\ UNCHANGED <<func, args, runvars, filevars>>

CallCalculate ==
    /\ func = "calculate_from_evaluation"
    /\ ret = <<>>
    /\ ret' = <<calculate_from_evaluation(args)>>
    /\ UNCHANGED <<func, args, runvars, filevars>>

CallMetrics ==
    /\ func = "EvaluationMetricsTool._run"
    /\ ret = <<>>
    /\ ret' = <<metrics_run(args)>>
    /\ UNCHANGED <<func, args, runvars, filevars>>

CallVision ==
    /\ func = "QwenVisionTool._run"
    /\ ret = <<>>
    /\ ret' = <<QwenVisionTool_run(args)>>
    /\ UNCHANGED <<func, args, runvars, filevars>>

NextFunctions == CallParsePrice \/ CallCalculate \/ CallMetrics \/ CallVision

FunctionSpec == InitFunctions /\ [][NextFunctions]_vars

\* ------------------------------------------------------------------- run
\* ---------------------------------------------------------- MarketSearch._run
\* _run is followed from the creation of the output folder to its return;
\* args is the number of pieces the new collection's text has. A reader (the
\* verification step of run, the file reading tool) may load json_file between
\* any two steps.
InitWrite ==
    /\ RunIdle
    /\ func = "MarketSearch._run"
    /\ args \in 1..MaxChunks
    /\ ret = <<>>
    /\ json_file \in {NoFile} \cup {File("old", n, n) : n \in 1..MaxChunks}
    /\ tmp_file \in {NoFile, File("old", 0, 1)}
    /\ save_pc = "mkdir"
    /\ scraped_data = NoFile

\* except Exception as e: return f"Error: {str(e)}"
ReturnErrorText ==
    /\ ret' = <<"Error">>
    /\ save_pc' = "returned"

\* abs_output_folder.mkdir(parents=True, exist_ok=True), before the try
MakeFolder ==
    /\ save_pc = "mkdir"
    /\ \/ save_pc' = "scrape"
       \/ save_pc' = "raised"
    /\ UNCHANGED <<func, args, ret, json_file, tmp_file, scraped_data, runvars>>

\* steps 2 to 4: the links and the listings are collected
Scrape ==
    /\ save_pc = "scrape"
    /\ \/ save_pc' = "open" /\ UNCHANGED ret
       \/ ReturnErrorText
    /\ UNCHANGED <<func, args, json_file, tmp_file, scraped_data, runvars>>

\* open(tmp_file, "w", encoding="utf-8")
OpenTmp ==
    /\ save_pc = "open"
    /\ \/ /\ tmp_file' = File("new", 0, args)
          /\ save_pc' = "dump"
          /\ UNCHANGED ret
       \/ /\ ReturnErrorText
          /\ UNCHANGED tmp_file
    /\ UNCHANGED <<func, args, json_file, scraped_data, runvars>>

\* A faulty variant of DumpDone: the file is handed on before its text is
\* complete.
DumpBegun(f) == TRUE

\* json.dump has written the whole text
DumpDone(f) == f.chunks = f.of

\* json.dump(dataset, f, indent=4, ensure_ascii=False) inside the with block
Dump ==
    /\ save_pc = "dump"
    /\ IF DumpDone(tmp_file)
       THEN /\ save_pc' = "replace"
            /\ UNCHANGED <<ret, tmp_file>>
       ELSE \/ /\ tmp_file' = File(tmp_file.data, tmp_file.chunks + 1, tmp_file.of)
               /\ UNCHANGED <<ret, save_pc>>
            \/ /\ ReturnErrorText
               /\ UNCHANGED tmp_file
    /\ UNCHANGED <<func, args, json_file, scraped_data, runvars>>

\* tmp_file.replace(json_file), then the return of the success text
ReplaceFile ==
    /\ save_pc = "replace"
    /\ \/ /\ json_file' = tmp_file
          /\ tmp_file' = NoFile
          /\ ret' = <<"Successfully scraped">>
          /\ save_pc' = "returned"
       \/ /\ ReturnErrorText
          /\ UNCHANGED <<json_file, tmp_file>>
    /\ UNCHANGED <<func, args, scraped_data, runvars>>

\* a reader: scraped_data = json.load(f)
ReadFile ==
    /\ save_pc # "idle"
    /\ scraped_data' = json_file
    /\ UNCHANGED <<func, args, ret, json_file, tmp_file, save_pc, runvars>>

NextWrite == MakeFolder \/ Scrape \/ OpenTmp \/ Dump \/ ReplaceFile \/ ReadFile

WriteSpec == InitWrite /\ [][NextWrite]_vars

Next == Phase1 \/ StepQuery \/ StepScrape \/ StepVerify \/ StepEvaluate

Spec == Init /\ [][Next]_vars

\* ------------------------------------------- a second run on the same object
\* What an earlier call of run ended with: its first iteration matched every
\* listing (note 0 marks the earlier run's judgments).
LeftItems == [v \in 1..MaxListing |-> Item("match", v, 0)]
LeftEval ==
    CHOOSE p \in ToolPayloads(0) : p.individual_results_evaluation = LeftItems
LeftMatches == MergeMatches(<<>>, CurrentMatches(LeftEval))
LeftStep == StepRes(1, QueryText(1), LeftEval, LeftMatches)

\* run is called again: the tracking values of the earlier call are still in
\* memory, the file it wrote is on disk
InitRerun ==
    /\ pc = "start"
    /\ i = 0
    /\ img_analysis = <<>>
    /\ current_query_json = <<>>
    /\ query = ""
    /\ feedback = NextFeedback(LeftEval)
    /\ history = <<LeftStep>>
    /\ best_res = NewBest(InitBest, LeftStep)
    /\ all_unique_matches = LeftMatches
    /\ scraper_file = "data"
    /\ fresh = FALSE
    /\ calls = <<>>
    /\ skips = <<>>
    /\ scrape_out = "none"
    /\ answers = <<>>
    /\ result = <<>>
    /\ item_price = <<>>
    /\ func = "none"
    /\ args = <<>>
    /\ ret = <<>>
    /\ FilesIdle

RerunSpec == InitRerun /\ [][Next]_vars

\* ----------------------------------------------------------------- helpers
CallsOf(c) == SelectSeq(calls, LAMBDA x : x.c = c)
LoopCalls == SelectSeq(calls, LAMBDA x : x.c # "analysis")
Returned == pc = "returned"

\* the analysis crew raised: run has left Phase 1 without an image analysis
AnalysisRaised == pc # "start" /\ img_analysis = <<>>

PhaseOneFailure ==
    /\ Returned
    /\ result.success = FALSE
    /\ result.history = <<>>
    /\ result.best_iteration = 0

\* C1: when the image-analysis call raises, run returns at once with
\* success false, an empty history and best_iteration 0, and no refinement,
\* retrieval or judgment call is made.
C1_AnalysisExceptionIsFatal ==
    AnalysisRaised => (PhaseOneFailure /\ LoopCalls = <<>>)

C1_Witness == AnalysisRaised /\ Returned /\ result.error = ErrText(ErrorLimit)

\* C2: when the image analysis is the documented error form
\* {status: "ERROR", reason}, run ends as in C1 and no iteration is attempted.
C2_ErrorStatusIsFatal ==
    (img_analysis # <<>> /\ img_analysis.type = "dict" /\ img_analysis.status = "ERROR")
        => (PhaseOneFailure /\ LoopCalls = <<>>)

\* C3: once a completed iteration's verdict is "sufficient", run has returned
\* success true with that iteration the last one: no call carries a greater
\* index.
C3_SufficientStopsLoop ==
    \A k \in 1..Len(history) :
        history[k].evaluation.overall_sufficiency = Str("sufficient") =>
            /\ Returned
            /\ result.success = TRUE
            /\ k = Len(history)
            /\ \A n \in 1..Len(calls) : calls[n].i <= history[k].iteration

C3_Witness ==
    /\ Returned
    /\ Len(history) = 1
    /\ history[1].iteration = 1
    /\ history[1].evaluation.overall_sufficiency = Str("sufficient")
    /\ result.success = TRUE
    /\ \A n \in 1..Len(calls) : calls[n].i <= 1

\* C4: a run uses the indices 1..3 only and always moves forward; every
\* collaborator is called at most once per index: the analysis once,
\* refinement for the indices 2 and 3, retrieval and judgment for 1..3.
StepRank(p) ==
    CASE p = "query" -> 1 [] p = "scrape" -> 2 [] p = "verify" -> 3
      [] p = "evaluate" -> 4 [] OTHER -> 0
Rank(p, idx) ==
    IF p = "start" THEN 0
    ELSE IF p \in {"returned", "raised"} THEN 5 * (MaxIterations + 1)
    ELSE 5 * idx + StepRank(p)

C4_CallBudget ==
    /\ i \in 0..MaxIterations
    /\ \A m, n \in 1..Len(calls) :
          (calls[m].c = calls[n].c /\ calls[m].i = calls[n].i) => m = n
    /\ \A n \in 1..Len(calls) :
          CASE calls[n].c = "analysis" -> calls[n].i = 0
            [] calls[n].c = "refine" -> calls[n].i \in 2..MaxIterations
            [] OTHER -> calls[n].i \in 1..MaxIterations
    /\ Len(CallsOf("analysis")) <= 1
    /\ Len(CallsOf("refine")) <= MaxIterations - 1
    /\ Len(CallsOf("scrape")) <= MaxIterations
    /\ Len(CallsOf("judge")) <= MaxIterations

C4_BoundedRun ==
    /\ [](C4_CallBudget)
    /\ [][Rank(pc', i') > Rank(pc, i)]_vars

C4_Witness ==
    /\ Returned
    /\ Len(CallsOf("refine")) = MaxIterations - 1
    /\ Len(CallsOf("scrape")) = MaxIterations
    /\ Len(CallsOf("judge")) = MaxIterations

\* C5: when each of the three iterations is given up at the verification
\* step, run returns an empty history, best_iteration 0 and success false, and
\* the judge is never called.
AllFailAtVerify ==
    /\ Returned
    /\ \A idx \in 1..MaxIterations :
          \E n \in 1..Len(skips) : skips[n] = [i |-> idx, step |-> "verify"]

C5_ExhaustedWithoutData ==
    AllFailAtVerify => (PhaseOneFailure /\ CallsOf("judge") = <<>>)

C5_Witness == AllFailAtVerify /\ Len(CallsOf("scrape")) = MaxIterations

\* C6: run returns success true only if the iteration it stopped at has
\* match_percentage >= 50 and count_positive >= 3.
C6_SuccessMeetsRule ==
    (Returned /\ result.success = TRUE) =>
        LET last == result.history[Len(result.history)]
        IN  /\ last.match_percentage >= MinPercent * PctUnit
            /\ last.count_positive >= MinPositive

\* C7: after any sequence of completed iterations the best tracker is the
\* earliest iteration among those with the greatest match_percentage.
C7_BestIsEarliestMax ==
    history # <<>> =>
        \E k \in 1..Len(history) :
            /\ best_res = history[k]
            /\ \A j \in 1..Len(history) :
                  history[j].match_percentage <= history[k].match_percentage
            /\ \A j \in 1..(k - 1) :
                  history[j].match_percentage < history[k].match_percentage

\* the evaluated listings of the first k completed iterations
RECURSIVE ItemsUpTo(_)
ItemsUpTo(k) ==
    IF k = 0 THEN {}
    ELSE ItemsUpTo(k - 1) \cup
         { history[k].evaluation.individual_results_evaluation[n] :
             n \in 1..Len(history[k].evaluation.individual_results_evaluation) }

\* judged a match: is_match or match_status is set
Flagged(it) == it.is_match = "True" \/ it.match_status = "True"
MatchedUpTo(k) == {it \in ItemsUpTo(k) : Flagged(it)}
\* the listing an id names, whether the id came as a number or as text
Listing(it) == it.id.v

\* C8: the accumulator holds one entry per listing id, keyed by the id's
\* string form; its keys are the union of the ids matched in the completed
\* iterations, and each entry is the evaluation of the latest iteration that
\* matched its id.
C8_AccumulatorOnePerId ==
    /\ \A a, b \in 1..Len(all_unique_matches) :
          Listing(all_unique_matches[a].v) = Listing(all_unique_matches[b].v) => a = b
    /\ \A j \in 1..Len(all_unique_matches) :
          all_unique_matches[j].k = [t |-> "str", v |-> Listing(all_unique_matches[j].v)]
    /\ {Listing(all_unique_matches[j].v) : j \in 1..Len(all_unique_matches)}
          = {Listing(it) : it \in MatchedUpTo(Len(history))}
    /\ \A j \in 1..Len(all_unique_matches) :
          /\ all_unique_matches[j].v \in MatchedUpTo(Len(history))
          /\ \A it \in MatchedUpTo(Len(history)) :
                Listing(it) = Listing(all_unique_matches[j].v)
                    => it.note <= all_unique_matches[j].v.note

C8_Witness ==
    /\ Len(history) >= 2
    /\ \E j \in 1..Len(all_unique_matches) :
          /\ all_unique_matches[j].v.note = history[2].iteration
          /\ all_unique_matches[j].v.id.t = "str"
          /\ \E it \in MatchedUpTo(1) :
                /\ Listing(it) = Listing(all_unique_matches[j].v)
                /\ it.id.t = "int"
    /\ Len(all_unique_matches) < Cardinality(MatchedUpTo(Len(history)))

\* C9 as stated: every entry of the accumulator has is_match = true.
C9_EntriesHaveIsMatch ==
    \A j \in 1..Len(all_unique_matches) : all_unique_matches[j].v.is_match = "True"

\* C9: every entry of the accumulator has is_match or match_status set; a
\* listing with neither is never inserted.
C9_EntriesAreFlagged ==
    /\ \A j \in 1..Len(all_unique_matches) : Flagged(all_unique_matches[j].v)
    /\ \A it \in ItemsUpTo(Len(history)) :
          ~Flagged(it) => \A j \in 1..Len(all_unique_matches) : all_unique_matches[j].v # it

C9_Witness ==
    /\ \E j \in 1..Len(all_unique_matches) :
          /\ all_unique_matches[j].v.is_match = "absent"
          /\ all_unique_matches[j].v.match_status = "True"
    /\ \E it \in ItemsUpTo(Len(history)) :
          /\ ~Flagged(it)
          /\ \A j \in 1..Len(all_unique_matches) :
                Listing(all_unique_matches[j].v) # Listing(it)

\* C10: the price_statistics of iteration k count the distinct listing ids
\* judged a match in the iterations completed up to and including k.
C10_StatsAreCumulative ==
    \A k \in 1..Len(history) :
        history[k].price_statistics.count_listings
            = Cardinality({Listing(it) : it \in MatchedUpTo(k)})

C10_Witness ==
    \E k \in 2..Len(history) :
        /\ history[k].price_statistics.count_listings
              > Cardinality({it \in MatchedUpTo(k) : it.note = history[k].iteration})
        /\ history[k].price_statistics.count_listings
              = Cardinality({Listing(it) : it \in MatchedUpTo(k)})

\* the loop's move after an abandoned index: the next index, or after the
\* last one the return
MovesOn ==
    IF i < MaxIterations THEN i' = i + 1 /\ pc' = "query" ELSE pc' = "returned"

\* this step gave the index up at one of `steps`
GivesUpAt(steps) ==
    /\ Len(skips') = Len(skips) + 1
    /\ skips'[Len(skips')].step \in steps

\* C11: an exception of query refinement or of match judgment abandons the
\* current index only: no history entry, accumulator and best tracker
\* unchanged, no later step of that index, and the loop moves on.
C11_ExceptionSkipsIndex ==
    /\ [][GivesUpAt({"query", "judge"}) =>
            /\ history' = history
            /\ all_unique_matches' = all_unique_matches
            /\ best_res' = best_res
            /\ MovesOn]_vars
    /\ [](\A n \in 1..Len(skips) :
            /\ skips[n].step \in {"query", "judge"} =>
                  \A k \in 1..Len(history) : history[k].iteration # skips[n].i
            /\ skips[n].step = "query" =>
                  \A m \in 1..Len(calls) :
                      calls[m].i = skips[n].i => calls[m].c = "refine"
            /\ skips[n].step = "judge" =>
                  \A m \in 1..Len(calls) :
                      calls[m].i = skips[n].i => (m = Len(calls) \/ calls[m + 1].i # skips[n].i
                                                    \/ calls[m].c # "judge"))

C11_Witness ==
    /\ Len(skips) = 2
    /\ skips[1] = [i |-> 1, step |-> "judge"]
    /\ skips[2] = [i |-> 2, step |-> "query"]
    /\ Len(history) = 1
    /\ history[1].iteration = MaxIterations

\* C12: when the listing file is absent, empty or unreadable at the
\* verification step, the index is skipped: the judge is not called for it,
\* no history entry is recorded, and the attempt is consumed.
C12_UnusableFileSkipsIndex ==
    /\ [][(pc = "verify" /\ scraper_file \in {"absent", "empty", "corrupt"}) =>
            /\ calls' = calls
            /\ history' = history
            /\ MovesOn]_vars
    /\ [](\A n \in 1..Len(skips) :
            skips[n].step = "verify" =>
                /\ \A k \in 1..Len(history) : history[k].iteration # skips[n].i
                /\ \A m \in 1..Len(calls) :
                      calls[m].c = "judge" => calls[m].i # skips[n].i
                /\ (i > skips[n].i \/ pc = "returned"))

C12_Witness ==
    /\ skips = <<[i |-> 1, step |-> "verify"]>>
    /\ scraper_file = "empty"
    /\ pc = "query"
    /\ i = 2

\* C13: a judge's answer of invalid shape abandons the index as an exception
\* does: no history entry is recorded for it and the loop goes on.
C13_InvalidShapeSkipsIndex ==
    \A n \in 1..Len(answers) :
        answers[n].shape # "object" =>
            /\ \A k \in 1..Len(history) : history[k].iteration # answers[n].i
            /\ pc # "raised"

\* C14: an exception of listing retrieval never ends the iteration or the
\* run: the verification step of the same index comes next.
C14_RetrievalErrorSwallowed ==
    /\ [][pc = "scrape" => (pc' = "verify" /\ i' = i)]_vars
    /\ [](scrape_out = "raised" => pc = "verify")

C14_Witness ==
    /\ scrape_out = "raised"
    /\ pc = "verify"
    /\ i = 2

\* a returned call of _parse_price
Parsed == func = "_parse_price" /\ ret # <<>>
\* the float x.yz, given in cents
Cents(c) == [ok |-> TRUE, v |-> c * (Unit \div 100)]

\* C15: _parse_price gives 120.0 for "120 €", 199.0 for "199 € VB", 1234.56
\* for "1.234,56 €" and 1234.0 for "1234", and raises for the empty string,
\* for None and for "abc".
C15_ParserLiterals ==
    Parsed =>
        /\ args = Literal("120 €") => ret[1] = Cents(12000)
        /\ args = Literal("199 € VB") => ret[1] = Cents(19900)
        /\ args = Literal("1.234,56 €") => ret[1] = Cents(123456)
        /\ args = Literal("1234") => ret[1] = Cents(123400)
        /\ args \in {Literal(""), PyNone, Literal("abc")} => ~ret[1].ok

C15_Witness ==
    /\ Parsed
    /\ args = Literal("1.234,56 €")
    /\ ret[1] = Cents(123456)

\* C16: _parse_price gives 1234.56 for the US-formatted "1,234.56".
C16_ParserUSFormat ==
    (Parsed /\ args = Literal("1,234.56")) => ret[1] = Cents(123456)

\* a returned call of calculate_from_evaluation
Calculated == func = "calculate_from_evaluation" /\ ret # <<>>

\* the listings of the argument whose price parses, and those of them
\* flagged is_match true, as sets of positions
Priced == {k \in 1..Len(args) : parse_price(PriceStr(args[k])).ok}
PricedMatches == {k \in Priced : args[k].is_match = "True"}
PriceAt(k) == parse_price(PriceStr(args[k])).v

\* the r-th smallest price among the positions I
Smallest(I, r) ==
    CHOOSE x \in {PriceAt(k) : k \in I} :
        /\ Cardinality({k \in I : PriceAt(k) < x}) < r
        /\ r <= Cardinality({k \in I : PriceAt(k) <= x})

\* minimum, maximum and median of the prices at the positions I, in cents
StatsOf(I) ==
    LET n == Cardinality(I)
    IN  [min    |-> Round2(Smallest(I, 1)),
         max    |-> Round2(Smallest(I, n)),
         median |-> IF n % 2 = 1 THEN Round2(Smallest(I, (n + 1) \div 2))
                    ELSE RoundDiv(Smallest(I, n \div 2) + Smallest(I, n \div 2 + 1),
                                  2 * (Unit \div 100))]

\* C17: calculate_from_evaluation returns count_listings = the size of the
\* list and count_prices_parsed = the number of listings whose price parses;
\* a listing whose price does not parse is counted in count_listings only,
\* and price_statistics_all is null exactly when no price parsed.
C17_CountsAndExclusion ==
    Calculated =>
        /\ ret[1].count_listings = Len(args)
        /\ ret[1].count_prices_parsed = Cardinality(Priced)
        /\ ret[1].count_prices_parsed <= ret[1].count_listings
        /\ (ret[1].price_statistics_all = <<>>) <=> (ret[1].count_prices_parsed = 0)
        /\ ret[1].price_statistics_all # <<>> =>
              \A f \in {"min", "max"} :
                  \E k \in Priced : ret[1].price_statistics_all[1][f] = Round2(PriceAt(k))

C17_Witness ==
    /\ Calculated
    /\ Len(args) = 3
    /\ Cardinality(Priced) = 1
    /\ ret[1].count_listings = 3
    /\ ret[1].count_prices_parsed = 1
    /\ ret[1].price_statistics_all # <<>>

\* the example of three listings: 120.00 and 1234.56 flagged, one
\* unparseable price not flagged
ExampleListings ==
    << [type |-> "dict", price |-> "120 €", is_match |-> "True"],
       [type |-> "dict", price |-> "N/A", is_match |-> "False"],
       [type |-> "dict", price |-> "1.234,56 €", is_match |-> "True"] >>

\* C18: each non-empty price collection (all parsed prices, prices of the
\* listings with is_match true) is summarised by its minimum, maximum and
\* median, an even-sized collection's median being the mean of its two
\* middle values; min <= median <= max, the all-block spans the
\* matches-block, and the example gives {120.0, 1234.56, 677.28} twice.
C18_MinMaxMedian ==
    Calculated =>
        LET all     == ret[1].price_statistics_all
            matches == ret[1].price_statistics_matches
        IN  /\ all = IF Priced = {} THEN <<>> ELSE <<StatsOf(Priced)>>
            /\ matches = IF PricedMatches = {} THEN <<>> ELSE <<StatsOf(PricedMatches)>>
            /\ \A b \in {all, matches} :
                  b # <<>> => (b[1].min <= b[1].median /\ b[1].median <= b[1].max)
            /\ matches # <<>> =>
                  (all[1].min <= matches[1].min /\ matches[1].max <= all[1].max)
            /\ args = ExampleListings =>
                  /\ all = <<[min |-> 12000, max |-> 123456, median |-> 67728]>>
                  /\ matches = all

C18_Witness ==
    /\ Calculated
    /\ args = ExampleListings
    /\ ret[1].price_statistics_matches =
          <<[min |-> 12000, max |-> 123456, median |-> 67728]>>

\* a returned call of the metrics tool
Measured == func = "EvaluationMetricsTool._run" /\ ret # <<>>

\* the matching items of the argument: objects with is_match or match_status
\* true
Positive ==
    Cardinality({k \in 1..Len(args) :
        /\ args[k].type = "dict"
        /\ (args[k].is_match = "True" \/ args[k].match_status = "True")})

\* C19: for a non-empty list with `positive` matching items out of `total`
\* the tool reports match_percentage = positive / total * 100 to two
\* decimals and the verdict sufficient iff match_percentage >= 50 and
\* positive >= 3; 5 of 8 is 62.5 and sufficient, 2 of 2 is 100.0 and not
\* sufficient, 3 of 10 is 30.0 and not sufficient.
C19_MetricsRule ==
    (Measured /\ Len(args) > 0) =>
        LET total == Len(args)
            pct   == ret[1].match_percentage
            suff  == ret[1].overall_sufficiency = "sufficient"
            diff  == pct * total - Positive * 100 * 100
        IN  /\ ret[1].error = FALSE
            /\ ret[1].count_positive = Positive
            /\ ret[1].total_listings = total
            /\ 2 * diff <= total /\ -2 * diff <= total
            /\ ret[1].overall_sufficiency \in {"sufficient", "not sufficient"}
            /\ suff <=> (pct >= 50 * 100 /\ Positive >= 3)
            /\ (Positive = 5 /\ total = 8) => (pct = 6250 /\ suff)
            /\ (Positive = 2 /\ total = 2) => (pct = 10000 /\ ~suff)
            /\ (Positive = 3 /\ total = 10) => (pct = 3000 /\ ~suff)

C19_Witness ==
    /\ Measured
    /\ Len(args) = 2
    /\ Positive = 2
    /\ ret[1].match_percentage = 10000
    /\ ret[1].overall_sufficiency = "not sufficient"

\* _finalize has run
Finalized == pc = "returned" /\ item_price # <<>>

\* the statistics block of the returned best_result named f, <<>> when the
\* best_result has no price statistics or the block is null
BestBlock(f) ==
    IF "price_statistics" \in DOMAIN result.best_result
    THEN result.best_result.price_statistics[f]
    ELSE <<>>

\* C20: the summary takes its prices from best_result's matched-items
\* statistics when they are not null, else from its all-items statistics,
\* else from nothing; range is [min, max] when the bounds exist and empty
\* otherwise, median being null then.
C20_PriceSourceOrder ==
    Finalized =>
        LET matches == BestBlock("price_statistics_matches")
            all     == BestBlock("price_statistics_all")
        IN  IF matches # <<>>
            THEN /\ item_price.range = <<matches[1].min, matches[1].max>>
                 /\ item_price.median = Num(matches[1].median)
            ELSE IF all # <<>>
            THEN /\ item_price.range = <<all[1].min, all[1].max>>
                 /\ item_price.median = Num(all[1].median)
            ELSE /\ item_price.range = <<>>
                 /\ item_price.median = Absent

C20_Witness ==
    /\ Finalized
    /\ BestBlock("price_statistics_matches") # <<>>
    /\ BestBlock("price_statistics_all") # BestBlock("price_statistics_matches")
    /\ item_price.range = << BestBlock("price_statistics_matches")[1].min,
                             BestBlock("price_statistics_matches")[1].max >>

\* C21: every error message in the returned result has at most 200
\* characters, whether it is an exception's text or the error reported
\* inside the image analysis.
C21_ErrorsAreTruncated ==
    (Returned /\ result.error # Absent) => result.error[2] <= 200

\* match_percentage as the counts give it: positive / total * 100 to two
\* decimals, 0 for no listing
PctOf(positive, total) ==
    IF total = 0 THEN 0 ELSE RoundDiv(positive * 100 * PctUnit, total)

\* C22: every history entry is consistent: its match_percentage lies in
\* 0..100 and is count_positive / total_listings * 100 to two decimals, 0
\* when total_listings is 0.
C22_EntryIsConsistent ==
    \A k \in 1..Len(history) :
        /\ history[k].match_percentage >= 0
        /\ history[k].match_percentage <= 100 * PctUnit
        /\ history[k].match_percentage
              = PctOf(history[k].count_positive, history[k].total_listings)

\* C23: when the judge's answer has no overall_sufficiency the verdict is
\* derived from the entry's counts, and a sufficient one (match_percentage
\* >= 50, count_positive >= 3) ends the run with success true.
C23_VerdictDerivedLocally ==
    \A k \in 1..Len(history) :
        ( /\ history[k].evaluation.overall_sufficiency = Absent
          /\ history[k].match_percentage >= 50 * PctUnit
          /\ history[k].count_positive >= 3 )
        => (Returned /\ result.success = TRUE /\ k = Len(history))

\* the listings of an answer flagged is_match true, and all of them
FlaggedIn(eval) ==
    Cardinality({n \in 1..Len(eval.individual_results_evaluation) :
        eval.individual_results_evaluation[n].is_match = "True"})

\* C24: when the judge's answer has no match_percentage the entry's
\* match_percentage is recomputed from the is_match flags (matching listings
\* / evaluated listings * 100), and the best tracker compares that value.
C24_PercentageDerivedLocally ==
    \A k \in 1..Len(history) :
        history[k].evaluation.match_percentage = Absent =>
            history[k].match_percentage
                = PctOf(FlaggedIn(history[k].evaluation),
                        Len(history[k].evaluation.individual_results_evaluation))

\* the indices whose judgment came back and was worked through to the end
CompletedIndices ==
    {answers[n].i : n \in {m \in 1..Len(answers) : answers[m].shape \in {"object", "text"}}}

Captured(eval) ==
    IF eval.query_improvement_feedback = Absent THEN "None"
    ELSE eval.query_improvement_feedback[2]

\* the feedback in force when index idx starts: that of the latest entry of
\* an earlier index, "None" when there is none
FeedbackBefore(idx) ==
    LET prior == {k \in 1..Len(history) : history[k].iteration < idx}
    IN  IF prior = {} THEN "None"
        ELSE Captured(history[CHOOSE k \in prior : \A j \in prior : j <= k].evaluation)

\* C26: refinement is never called for index 1; for an index >= 2 it is
\* called before that index's retrieval, with the feedback of the most
\* recent completed iteration, or "None" when none has completed; a skipped
\* index neither sets nor clears the feedback.
C26_RefinementFeedback ==
    \A n \in 1..Len(calls) :
        /\ calls[n].c = "refine" =>
              /\ calls[n].i \in 2..MaxIterations
              /\ calls[n].arg = FeedbackBefore(calls[n].i)
        /\ (calls[n].c \in {"scrape", "judge"} /\ calls[n].i >= 2) =>
              \E m \in 1..(n - 1) : calls[m].c = "refine" /\ calls[m].i = calls[n].i

C26_Witness ==
    /\ \E n \in 1..Len(skips) : skips[n].i = 2
    /\ \E n \in 1..Len(calls) :
          /\ calls[n] = Call("refine", MaxIterations, FeedbackText(1))
          /\ \E m \in (n + 1)..Len(calls) : calls[m].c = "scrape"

\* C27: in every history entry price_statistics_matches equals
\* price_statistics_all.
C27_MatchesEqualAll ==
    \A k \in 1..Len(history) :
        history[k].price_statistics.price_statistics_matches
            = history[k].price_statistics.price_statistics_all

\* the maximal runs of digits, dots and commas of a string, as (first, last)
RunsOf(s) ==
    {r \in (1..Len(s)) \X (1..Len(s)) :
        /\ r[1] <= r[2]
        /\ \A j \in r[1]..r[2] : s[j] \in {"0", "1", "2", "3", "4", "5", "6", "7", "8", "9", ".", ","}
        /\ (r[1] = 1 \/ s[r[1] - 1] \notin {"0", "1", "2", "3", "4", "5", "6", "7", "8", "9", ".", ","})
        /\ (r[2] = Len(s) \/ s[r[2] + 1] \notin {"0", "1", "2", "3", "4", "5", "6", "7", "8", "9", ".", ","})}

\* the float a run stands for, after the locale rule
Converted(run) ==
    IF FloatOk(Normalise(run)) THEN [ok |-> TRUE, v |-> FloatOf(Normalise(run))]
    ELSE ParseError

\* a returned call of _parse_price on a string with two runs or more
ParsedSeveralRuns ==
    /\ Parsed
    /\ args.type = "str"
    /\ Cardinality(RunsOf(CleanPrice(args.chars))) >= 2

\* C28 as stated: of several runs of digits, dots and commas the parser
\* converts the longest one.
C28_LongestRun ==
    ParsedSeveralRuns =>
        LET s    == CleanPrice(args.chars)
            runs == RunsOf(s)
        IN  \A r \in runs :
                (\A q \in runs \ {r} : q[2] - q[1] < r[2] - r[1])
                    => ret[1] = Converted(SubSeq(s, r[1], r[2]))

\* C28: of several runs of digits, dots and commas the parser converts the
\* first one, whatever its length.
C28_LeftmostRun ==
    ParsedSeveralRuns =>
        LET s    == CleanPrice(args.chars)
            runs == RunsOf(s)
        IN  \A r \in runs :
                (\A q \in runs : r[1] <= q[1])
                    => ret[1] = Converted(SubSeq(s, r[1], r[2]))

C28_Witness ==
    /\ ParsedSeveralRuns
    /\ args = Literal("2 x 350 €")
    /\ ret[1] = Cents(200)

\* C29: for an empty list the metrics tool reports match_percentage 0.0 and
\* the verdict not sufficient, not an error.
C29_EmptyListIsNotSufficient ==
    (Measured /\ args = <<>>) =>
        /\ ret[1].error = FALSE
        /\ ret[1].match_percentage = 0
        /\ ret[1].overall_sufficiency = "not sufficient"

\* the judgments of an earlier run
FromEarlierRun(it) == it.note = 0

\* an iteration result, or the best result, that holds a judgment of an
\* earlier run
HoldsEarlierRun(step) ==
    /\ "evaluation" \in DOMAIN step
    /\ \E n \in 1..Len(step.evaluation.individual_results_evaluation) :
          FromEarlierRun(step.evaluation.individual_results_evaluation[n])

\* the loop of this run is under way, or it has ended through _finalize
InLoop == pc \in {"query", "scrape", "verify", "evaluate"} \/ Finalized

\* C30: a run called on an object that has run before starts with an empty
\* accumulator, an empty history and the zero-value best tracker; its history,
\* its accumulator, its best result and its price statistics hold only what
\* this run judged, and its result carries no entry of the earlier run.
C30_RunsShareNothing ==
    /\ [](InLoop =>
            /\ \A k \in 1..Len(history) :
                  /\ ~HoldsEarlierRun(history[k])
                  /\ history[k].price_statistics.count_listings
                        = Cardinality({Listing(it) : it \in MatchedUpTo(k)})
            /\ \A j \in 1..Len(all_unique_matches) :
                  ~FromEarlierRun(all_unique_matches[j].v)
            /\ ~HoldsEarlierRun(best_res))
    /\ [](Returned =>
            /\ \A k \in 1..Len(result.history) : ~HoldsEarlierRun(result.history[k])
            /\ ~HoldsEarlierRun(result.best_result))
    /\ [][(pc = "start" /\ pc' = "query") =>
            /\ history' = <<>>
            /\ all_unique_matches' = <<>>
            /\ best_res' = [match_percentage |-> 0]]_vars

\* the second run matched fewer listings than the first and its statistics
\* count only its own
C30_Witness ==
    /\ Finalized
    /\ Len(history) >= 1
    /\ \E k \in 1..Len(history) :
          /\ history[k].price_statistics.count_listings = 1
          /\ Cardinality({Listing(it) : it \in MatchedUpTo(k)}) = 1
    /\ Len(all_unique_matches) < MaxListing

\* C31: in every result returned with a non-empty history, best_iteration is
\* the iteration number recorded inside best_result.
C31_BestIterationAgrees ==
    (Finalized /\ result.history # <<>>) =>
        /\ "iteration" \in DOMAIN result.best_result
        /\ result.best_iteration = result.best_result.iteration

\* C32: with a non-empty history best_result is one of the history entries
\* and best_iteration is at least 1; the zero-value best_result and
\* best_iteration 0 occur only with an empty history.
C32_BestIsAnEntry ==
    (Finalized /\ result.history # <<>>) =>
        /\ \E k \in 1..Len(result.history) : result.best_result = result.history[k]
        /\ result.best_iteration >= 1

\* C37: the price summary written at finalization is the statistics of the
\* accumulator's contents at the moment the loop ended.
C37_SummaryOfAccumulator ==
    Finalized =>
        LET st == calculate_from_evaluation(Values(all_unique_matches)).price_statistics_all
        IN  IF st = <<>>
            THEN /\ item_price.range = <<>>
                 /\ item_price.median = Absent
            ELSE /\ item_price.range = <<st[1].min, st[1].max>>
                 /\ item_price.median = Num(st[1].median)

\* C33: the judge is called in iteration i only over a listing file written
\* by the retrieval call of iteration i.
C33_JudgesFreshData == pc = "evaluate" => fresh

\* C34: whatever the collaborators do, run returns a result; no exception
\* leaves it.
C34_NeverRaises == pc # "raised"

\* the items of the newest history entry that are flagged as a match
NewlyMatched(hist) ==
    LET items == hist[Len(hist)].evaluation.individual_results_evaluation
    IN  {items[n] : n \in {m \in 1..Len(items) : Flagged(items[m])}}

\* C35: a step never removes a key from the accumulator, and an entry whose
\* id the new iteration did not judge a match stays exactly as it was.
C35_MatchSticky ==
    [][\A j \in 1..Len(all_unique_matches) :
          \E n \in 1..Len(all_unique_matches') :
              /\ all_unique_matches'[n].k = all_unique_matches[j].k
              /\ \/ all_unique_matches'[n].v = all_unique_matches[j].v
                 \/ /\ Len(history') = Len(history) + 1
                    /\ all_unique_matches'[n].v \in NewlyMatched(history')]_vars

C35_Witness ==
    /\ Len(history) >= 2
    /\ \E j \in 1..Len(all_unique_matches) :
          /\ all_unique_matches[j].v.note = history[1].iteration
          /\ \E n \in 1..Len(history[2].evaluation.individual_results_evaluation) :
                LET it == history[2].evaluation.individual_results_evaluation[n]
                IN  /\ Listing(it) = Listing(all_unique_matches[j].v)
                    /\ it.is_match = "False"

\* C36: when the image analysis is plain text, run returns success = false
\* and the loop is never entered.
C36_TextAnalysisIsFatal ==
    (img_analysis # <<>> /\ img_analysis.type = "str") =>
        /\ i = 0
        /\ LoopCalls = <<>>
        /\ Returned => result.success = FALSE

\* a returned call of the vision tool on a list of urls
Analysed == func = "QwenVisionTool._run" /\ ret # <<>> /\ args.type = "list"

\* the urls the tool works on, and whether the first model call is made and
\* answered with status ERROR for more than one image
UsedUrls ==
    SubSeq(args.urls, 1, IF Len(args.urls) < 4 THEN Len(args.urls) ELSE 4)
ErrorForSeveral ==
    /\ Len(UsedUrls) > 1
    /\ \E n \in 1..Len(UsedUrls) : UsedUrls[n] = "ok"
    /\ args.replies[1] = "ERROR"

\* C39: one invocation of the vision tool makes at most 2 model calls; when
\* the model reports status ERROR for more than one image the tool retries
\* once with the first image only and returns that retry's outcome, whatever
\* it is.
C39_RetryIsBounded ==
    Analysed =>
        /\ ret[1].calls <= 2
        /\ IF ErrorForSeveral
           THEN /\ ret[1].images = 1
                /\ IF UsedUrls[1] = "bad"
                   THEN /\ ret[1].calls = 1
                        /\ ret[1].reason = "No accessible images found"
                   ELSE /\ ret[1].calls = 2
                        /\ ret[1].status = (IF args.replies[2] = "SUCCESS"
                                            THEN "SUCCESS" ELSE "ERROR")
                        /\ ret[1].reason =
                              CASE args.replies[2] = "SUCCESS" -> "none"
                                [] args.replies[2] = "ERROR" -> "model"
                                [] args.replies[2] = "text" -> "Invalid JSON response from model"
                                [] OTHER -> "exception"
           ELSE ret[1].calls <= 1

C39_Witness ==
    /\ Analysed
    /\ Len(args.urls) > 4
    /\ ErrorForSeveral
    /\ args.replies[2] = "ERROR"
    /\ args.replies[3] = "ERROR"
    /\ ret[1] = [status |-> "ERROR", reason |-> "model", calls |-> 2, images |-> 1]

\* a file that is there is there with its whole text
Whole(f) == f.chunks = f.of

\* C38: json_file changes only by the rename of the completely written
\* temporary file, so json_file and whatever a reader loads from it is at every
\* moment a whole collection, the previous one or the new one; an error in the
\* save step leaves json_file as it was and makes _run return an error text,
\* not raise.
C38_AtomicReplace ==
    /\ [](Whole(json_file) /\ Whole(scraped_data))
    /\ [](scraped_data.data = "new" => json_file.data = "new")
    /\ [][json_file' # json_file =>
            /\ json_file' = [data |-> "new", chunks |-> args, of |-> args]
            /\ ret' = <<"Successfully scraped">>]_vars
    /\ [][(ret = <<>> /\ ret' = <<"Error">>) =>
            /\ json_file' = json_file
            /\ json_file.data # "new"
            /\ save_pc' = "returned"]_vars
    /\ [][(save_pc \in {"open", "dump", "replace"}) => ~(save_pc' = "raised")]_vars

\* the write failed half-way: the previous collection is still the file, a
\* reader has loaded it, and the error text is returned
C38_Witness ==
    /\ save_pc = "returned"
    /\ ret = <<"Error">>
    /\ tmp_file = [data |-> "new", chunks |-> 1, of |-> 2]
    /\ json_file = [data |-> "old", chunks |-> 2, of |-> 2]
    /\ scraped_data = json_file

====
